---------------------------- MODULE Spec2Model ----------------------------
(***************************************************************************)
(* Table-reference collector of simple-sqlparser-rust (src/main.rs).       *)
(*                                                                         *)
(* The collector walks the AST built by the sqlparser crate and inserts    *)
(* the dot-joined name of every table it meets into a BTreeSet<String>.    *)
(* The AST is modelled as records tagged by a "kind" field, a String as    *)
(* the sequence of its bytes, Option<T> as a sequence of length 0 or 1,    *)
(* and the BTreeSet<String> as the strictly increasing sequence of its     *)
(* elements (the order in which its iterator yields them).                 *)
(***************************************************************************)
EXTENDS Integers, Sequences, FiniteSets, TLC

VARIABLES
    statements,   \* the parsed input, main.rs:268 (Vec<Statement>)
    idx,          \* number of statements extract_tables has consumed
    tables,       \* the BTreeSet<String> of extract_tables / `out`
    pc,           \* "extract" | "walk" | "print" | "done"
    printed,      \* the lines main has written so far
    stack         \* call stack of the collector (step-wise specification)

vars == <<statements, idx, tables, pc, printed, stack>>

-----------------------------------------------------------------------------
(* Strings and the ordered set                                             *)

\* the separator of idents.join(".")
DOT == 46

None == <<>>
Some(x) == <<x>>

Range(s) == {s[i] : i \in DOMAIN s}

\* Ord for String: byte-wise lexicographic, a proper prefix is smaller.
LexLess(a, b) ==
    \E k \in 1..(Len(b)) :
        /\ \A j \in 1..(k - 1) : j <= Len(a) /\ a[j] = b[j]
        /\ k - 1 <= Len(a)
        /\ (k = Len(a) + 1 \/ (k <= Len(a) /\ a[k] < b[k]))

\* [String]::join(sep)
RECURSIVE Join(_, _)
Join(strs, sep) ==
    IF Len(strs) = 0 THEN <<>>
    ELSE IF Len(strs) = 1 THEN strs[1]
    ELSE strs[1] \o <<sep>> \o Join(Tail(strs), sep)

object_name_to_string(name) ==
    LET idents == [i \in 1..Len(name) |-> name[i].value]
    IN Join(idents, DOT)

\* A mutant of BTreeInsert: a Vec push, keeping neither order nor uniqueness.
BTreeInsert_push(out, s) == Append(out, s)

\* BTreeSet::insert on the sorted representation.
BTreeInsert(out, s) ==
    IF \E i \in 1..Len(out) : out[i] = s THEN out
    ELSE LET below == SelectSeq(out, LAMBDA x : LexLess(x, s))
             above == SelectSeq(out, LAMBDA x : LexLess(s, x))
         IN below \o <<s>> \o above

-----------------------------------------------------------------------------
(* The AST of the sqlparser crate, as far as the collector matches on it   *)

Ident(v, q) == [value |-> v, quote_style |-> q]

\* TableFactor
Table(name) == [kind |-> "Table", name |-> name]
Derived(q) == [kind |-> "Derived", subquery |-> q]
TableFunction == [kind |-> "TableFunction"]
NestedJoin(twj) == [kind |-> "NestedJoin", table_with_joins |-> twj]

JoinOf(rel) == [relation |-> rel]
TableWithJoins(rel, joins) == [relation |-> rel, joins |-> joins]

\* SelectItem
UnnamedExpr(e) == [kind |-> "UnnamedExpr", expr |-> e]
ExprWithAlias(e) == [kind |-> "ExprWithAlias", expr |-> e]
Wildcard == [kind |-> "Wildcard"]

MkSelect(from, projection, selection, having) ==
    [from |-> from, projection |-> projection,
     selection |-> selection, having |-> having]

\* SetExpr
SetSelect(s) == [kind |-> "Select", select |-> s]
SetQuery(q) == [kind |-> "Query", query |-> q]
SetOperation(l, r) == [kind |-> "SetOperation", left |-> l, right |-> r]
Values == [kind |-> "Values"]

Cte(alias, q) == [alias |-> alias, query |-> q]
With(ctes) == [cte_tables |-> ctes]
MkQuery(with, body) == [with |-> with, body |-> body]

\* Expr
Identifier == [kind |-> "Identifier"]
Subquery(q) == [kind |-> "Subquery", subquery |-> q]
Exists(q) == [kind |-> "Exists", subquery |-> q]
InSubquery(e, q) == [kind |-> "InSubquery", expr |-> e, subquery |-> q]
BinaryOp(l, r) == [kind |-> "BinaryOp", left |-> l, right |-> r]
UnaryOp(e) == [kind |-> "UnaryOp", expr |-> e]
Cast(e) == [kind |-> "Cast", expr |-> e]
Extract(e) == [kind |-> "Extract", expr |-> e]
Nested(e) == [kind |-> "Nested", expr |-> e]
Case(operand, conditions, results, else_result) ==
    [kind |-> "Case", operand |-> operand, conditions |-> conditions,
     results |-> results, else_result |-> else_result]
Function(args) == [kind |-> "Function", args |-> args]
Between(e, low, high) ==
    [kind |-> "Between", expr |-> e, low |-> low, high |-> high]
Tuple(exprs) == [kind |-> "Tuple", exprs |-> exprs]
IsNull(e) == [kind |-> "IsNull", expr |-> e]

\* Statement
StatementQuery(q) == [kind |-> "Query", query |-> q]
CreateView(q) == [kind |-> "CreateView", query |-> q]
CreateTable(q) == [kind |-> "CreateTable", query |-> q]
Insert == [kind |-> "Insert"]
Drop == [kind |-> "Drop"]

-----------------------------------------------------------------------------
(* The collector.  No function of it reads `out`: each body is a fixed     *)
(* sequence of effects on `out`, an insert or a call, decided by its       *)
(* argument alone.                                                         *)

DoInsert(s) == [op |-> "insert", arg |-> s]
CallQuery(q) == [op |-> "query", arg |-> q]
CallSelect(s) == [op |-> "select", arg |-> s]
CallExpr(e) == [op |-> "expr", arg |-> e]

\* for x in xs { Body(x) }
ForEach(Body(_), xs) ==
    LET f[i \in 0..Len(xs)] == IF i = 0 THEN <<>> ELSE f[i - 1] \o Body(xs[i])
    IN f[Len(xs)]

\* if let Some(x) = opt { Body(x) }
IfSome(Body(_), opt) == IF Len(opt) = 0 THEN <<>> ELSE Body(opt[1])

\* A mutant of CteCalls: the WITH clause is not visited.
CteCalls_none(query) == <<>>

\* main.rs:44-49, the WITH clause
CteCalls(query) ==
    IfSome(LAMBDA with : ForEach(LAMBDA cte : <<CallQuery(cte.query)>>,
                                 with.cte_tables),
           query.with)

\* main.rs:87-95, the primary relation inside ( ... )
NestedRelation(rel) ==
    CASE rel.kind = "Table" -> <<DoInsert(object_name_to_string(rel.name))>>
      [] rel.kind = "Derived" -> <<CallQuery(rel.subquery)>>
      [] OTHER -> <<>>

\* main.rs:96-102, the joins inside ( ... )
NestedJoins(joins) ==
    ForEach(LAMBDA j :
                IF j.relation.kind = "Table"
                THEN <<DoInsert(object_name_to_string(j.relation.name))>>
                ELSE IF j.relation.kind = "Derived"
                THEN <<CallQuery(j.relation.subquery)>>
                ELSE <<>>,
            joins)

\* main.rs:77-105, match &twj.relation
PrimaryRelation(rel) ==
    CASE rel.kind = "Table" -> <<DoInsert(object_name_to_string(rel.name))>>
      [] rel.kind = "Derived" -> <<CallQuery(rel.subquery)>>
      [] rel.kind = "TableFunction" -> <<>>
      [] rel.kind = "NestedJoin" ->
            NestedRelation(rel.table_with_joins.relation)
                \o NestedJoins(rel.table_with_joins.joins)
      [] OTHER -> <<>>

\* main.rs:107-118, for j in &twj.joins
OuterJoins(joins) ==
    ForEach(LAMBDA j :
                CASE j.relation.kind = "Table" ->
                        <<DoInsert(object_name_to_string(j.relation.name))>>
                  [] j.relation.kind = "Derived" ->
                        <<CallQuery(j.relation.subquery)>>
                  [] OTHER -> <<>>,
            joins)

from_table_with_joins_single(twj) ==
    PrimaryRelation(twj.relation) \o OuterJoins(twj.joins)

from_table_with_joins(select) ==
    ForEach(from_table_with_joins_single, select.from)

\* main.rs:131-137, the projection list
ProjectionCalls(projection) ==
    ForEach(LAMBDA item :
                CASE item.kind = "UnnamedExpr" -> <<CallExpr(item.expr)>>
                  [] item.kind = "ExprWithAlias" -> <<CallExpr(item.expr)>>
                  [] OTHER -> <<>>,
            projection)

SelectBody(select) ==
    from_table_with_joins(select)
        \o ProjectionCalls(select.projection)
        \o IfSome(LAMBDA selection : <<CallExpr(selection)>>, select.selection)
        \o IfSome(LAMBDA having : <<CallExpr(having)>>, select.having)

\* main.rs:151-180, match expr
ExprBody(expr) ==
    CASE expr.kind \in {"InSubquery", "Exists", "Subquery"} ->
            <<CallQuery(expr.subquery)>>
      [] expr.kind = "BinaryOp" ->
            <<CallExpr(expr.left), CallExpr(expr.right)>>
      [] expr.kind \in {"UnaryOp", "Cast", "Extract", "Nested"} ->
            <<CallExpr(expr.expr)>>
      [] expr.kind = "Case" ->
            IfSome(LAMBDA op : <<CallExpr(op)>>, expr.operand)
                \o ForEach(LAMBDA c : <<CallExpr(c)>>, expr.conditions)
                \o ForEach(LAMBDA r : <<CallExpr(r)>>, expr.results)
                \o IfSome(LAMBDA er : <<CallExpr(er)>>, expr.else_result)
      [] expr.kind = "Function" -> <<>>
      [] expr.kind = "Between" ->
            <<CallExpr(expr.expr), CallExpr(expr.low), CallExpr(expr.high)>>
      [] expr.kind = "Tuple" -> ForEach(LAMBDA e : <<CallExpr(e)>>, expr.exprs)
      [] OTHER -> <<>>

RECURSIVE Exec(_, _)
RECURSIVE collect_tables_from_query(_, _)
RECURSIVE WhileLoop(_, _)

collect_tables_from_select(select, out) == Exec(SelectBody(select), out)

collect_tables_from_expr(expr, out) == Exec(ExprBody(expr), out)

\* One effect of a body, carried out on `out`.
Perform(e, out) ==
    CASE e.op = "insert" -> BTreeInsert(out, e.arg)
      [] e.op = "query" -> collect_tables_from_query(e.arg, out)
      [] e.op = "select" -> collect_tables_from_select(e.arg, out)
      [] e.op = "expr" -> collect_tables_from_expr(e.arg, out)

\* The effects of a body in program order.
Exec(effects, out) ==
    IF Len(effects) = 0 THEN out
    ELSE Exec(Tail(effects), Perform(Head(effects), out))

\* A mutant of WhileLoop: only the left branch of a set operation is queued.
RECURSIVE WhileLoop_left_branch(_, _)
WhileLoop_left_branch(queue, out) ==
    IF Len(queue) = 0 THEN out
    ELSE LET expr == Head(queue)
             rest == Tail(queue)
         IN CASE expr.kind = "Select" ->
                    WhileLoop_left_branch(rest,
                        collect_tables_from_select(expr.select, out))
              [] expr.kind = "Query" ->
                    WhileLoop_left_branch(rest,
                        collect_tables_from_query(expr.query, out))
              [] expr.kind = "SetOperation" ->
                    WhileLoop_left_branch(rest \o <<expr.left>>, out)
              [] OTHER -> WhileLoop_left_branch(rest, out)

\* main.rs:51-66, while let Some(expr) = queue.pop_front()
WhileLoop(queue, out) ==
    IF Len(queue) = 0 THEN out
    ELSE LET expr == Head(queue)
             rest == Tail(queue)
         IN CASE expr.kind = "Select" ->
                    WhileLoop(rest, collect_tables_from_select(expr.select, out))
              [] expr.kind = "Query" ->
                    WhileLoop(rest, collect_tables_from_query(expr.query, out))
              [] expr.kind = "SetOperation" ->
                    WhileLoop(rest \o <<expr.left, expr.right>>, out)
              [] OTHER -> WhileLoop(rest, out)

\* A mutant of collect_tables_from_query: the set is emptied on entry.
collect_tables_from_query_fresh(query, out) ==
    WhileLoop(<<query.body>>, Exec(CteCalls(query), <<>>))

collect_tables_from_query(query, out) ==
    WhileLoop(<<query.body>>, Exec(CteCalls(query), out))

\* A mutant of StatementBody: a view definition is skipped.
StatementBody_no_view(stmt) ==
    CASE stmt.kind = "Query" -> <<CallQuery(stmt.query)>>
      [] stmt.kind = "CreateTable" ->
            IfSome(LAMBDA q : <<CallQuery(q)>>, stmt.query)
      [] OTHER -> <<>>

\* main.rs:186-207, match stmt
StatementBody(stmt) ==
    CASE stmt.kind = "Query" -> <<CallQuery(stmt.query)>>
      [] stmt.kind = "CreateView" -> <<CallQuery(stmt.query)>>
      [] stmt.kind = "CreateTable" ->
            IfSome(LAMBDA q : <<CallQuery(q)>>, stmt.query)
      [] OTHER -> <<>>

-----------------------------------------------------------------------------
(* Inputs.  Every table of a generated tree is named after the path that   *)
(* leads to it, so that a table that is reached, or is not, can be told    *)
(* apart from every other.                                                 *)

\* statements per run
MaxStmts == 2
\* levels of ( ... ) grouping in a FROM entry
MaxNest == 2
\* set operations and nested queries in a body
MaxSetOps == 4
\* depth of an expression around its innermost subquery
MaxExprDepth == 2
\* segments of an identifier path
MaxSegs == 2

Plain(s) == <<Ident(s, "none")>>

From1(rel) == <<TableWithJoins(rel, <<>>)>>

SelectFrom(from) == MkSelect(from, <<Wildcard>>, None, None)

\* SELECT * FROM <s>
Sel(s) == MkQuery(None, SetSelect(SelectFrom(From1(Table(Plain(s))))))

SeqsUpTo(S, n) == UNION {[1..k -> S] : k \in 0..n}

\* SELECT * FROM a / FROM b JOIN a / SELECT 1 / ... FROM a UNION ... FROM c
SmallQueries ==
    { Sel(<<97>>),
      MkQuery(None, SetSelect(SelectFrom(
          <<TableWithJoins(Table(Plain(<<98>>)),
                           <<JoinOf(Table(Plain(<<97>>)))>>)>>))),
      MkQuery(None, SetSelect(MkSelect(<<>>, <<UnnamedExpr(Identifier)>>,
                                       None, None))),
      MkQuery(None, SetOperation(Sel(<<97>>).body, Sel(<<99>>).body)) }

SmallStatements ==
    {StatementQuery(q) : q \in SmallQueries}
        \cup {CreateView(q) : q \in SmallQueries}
        \cup {CreateTable(Some(q)) : q \in SmallQueries}
        \cup {CreateTable(None), Insert, Drop}

\* a, A, b and the quoted "a.b"
IdentPool ==
    { Ident(<<97>>, "none"), Ident(<<65>>, "none"), Ident(<<98>>, "none"),
      Ident(<<97, 46, 98>>, "dq") }

NamePool == SeqsUpTo(IdentPool, MaxSegs) \ {<<>>}

\* SELECT * FROM <n1> JOIN <n2>
NameQuery(n1, n2) ==
    MkQuery(None, SetSelect(SelectFrom(
        <<TableWithJoins(Table(n1), <<JoinOf(Table(n2))>>)>>)))

\* a table, a derived table, a table function
LeafFactors(p) ==
    {Table(Plain(p)), Derived(Sel(p \o <<100>>)), TableFunction}

RECURSIVE Twjs(_, _)
DeepFactors(n, p) ==
    LeafFactors(p)
        \cup (IF n = 0 THEN {}
              ELSE {NestedJoin(t) : t \in Twjs(n - 1, p \o <<103>>)})

Twjs(n, p) ==
    {TableWithJoins(f, js) :
        f \in DeepFactors(n, p \o <<112>>),
        js \in {<<>>} \cup {<<JoinOf(g)>> : g \in LeafFactors(p \o <<106>>)}}
    \cup
    {TableWithJoins(f, <<JoinOf(g)>>) :
        f \in LeafFactors(p \o <<112>>), g \in DeepFactors(n, p \o <<106>>)}
    \cup
    {TableWithJoins(Table(Plain(p \o <<112>>)),
                    <<JoinOf(Table(Plain(p \o <<105>>))), JoinOf(g)>>) :
        g \in DeepFactors(n, p \o <<106>>)}

\* SELECT * FROM <from>
FromQuery(from) == MkQuery(None, SetSelect(SelectFrom(from)))

\* the bodies with at most k set operations and nested queries
RECURSIVE SetExprs(_, _)
SetExprs(k, p) ==
    {Sel(p).body, Values}
        \cup (IF k = 0 THEN {}
              ELSE {SetQuery(MkQuery(None, b)) :
                        b \in SetExprs(k - 1, p \o <<113>>)}
                   \cup UNION {{SetOperation(l, r) :
                                   l \in SetExprs(i, p \o <<108>>),
                                   r \in SetExprs(k - 1 - i, p \o <<114>>)}
                               : i \in 0..(k - 1)})

\* the name c of the CTEs, and d of a CTE inside a CTE
CteName == <<99>>
InnerCteName == <<100>>

\* the queries defining a CTE, over the base tables <p>...
CteDefinitions(p) ==
    { Sel(p),
      MkQuery(None, SetOperation(Sel(p \o <<108>>).body, Sel(p \o <<114>>).body)),
      MkQuery(Some(With(<<Cte(InnerCteName, Sel(p \o <<119>>))>>)),
              Sel(InnerCteName).body),
      Sel(CteName) }

\* the bodies of a query WITH c AS (...)
CteBodies ==
    { Sel(CteName).body,
      Sel(<<120>>).body,
      SetSelect(SelectFrom(
          <<TableWithJoins(Table(Plain(<<120>>)),
                           <<JoinOf(Table(Plain(CteName)))>>)>>)),
      SetSelect(MkSelect(From1(Table(Plain(<<120>>))), <<Wildcard>>,
                         Some(InSubquery(Identifier, Sel(CteName))), None)),
      SetOperation(Values, SetQuery(Sel(CteName))) }

CteQueries ==
    {MkQuery(Some(With(<<Cte(CteName, q)>>)), b) :
        q \in CteDefinitions(<<98>>), b \in CteBodies}
    \cup
    {MkQuery(Some(With(<<Cte(CteName, q1), Cte(<<101>>, q2)>>)), b) :
        q1 \in CteDefinitions(<<98>>), q2 \in CteDefinitions(<<102>>),
        b \in CteBodies}

\* the expressions that wrap a query directly
QueryExprs(p) ==
    {Subquery(Sel(p)), Exists(Sel(p)), InSubquery(Identifier, Sel(p))}

\* e as one operand of each kind of expression, the other operands leaves
Around(e, p) ==
    { BinaryOp(e, Identifier), BinaryOp(Identifier, e),
      UnaryOp(e), Cast(e), Extract(e), Nested(e),
      Case(Some(e), <<Identifier>>, <<Identifier>>, None),
      Case(None, <<Identifier, e>>, <<Identifier, Identifier>>, None),
      Case(None, <<Identifier>>, <<e>>, None),
      Case(None, <<Identifier>>, <<Identifier>>, Some(e)),
      Between(e, Identifier, Identifier),
      Between(Identifier, e, Identifier),
      Between(Identifier, Identifier, e),
      Tuple(<<Identifier, e>>),
      InSubquery(e, Sel(p \o <<110>>)),
      BinaryOp(Subquery(Sel(p \o <<111>>)), e),
      Function(<<e>>),
      IsNull(e) }

RECURSIVE Exprs(_, _)
Exprs(d, p) ==
    QueryExprs(p)
        \cup (IF d = 0 THEN {Identifier}
              ELSE UNION {Around(e, p) : e \in Exprs(d - 1, p \o <<101>>)})

\* SELECT * FROM t WHERE <e>
WhereQuery(e) ==
    MkQuery(None, SetSelect(MkSelect(From1(Table(Plain(<<116>>))),
                                     <<Wildcard>>, Some(e), None)))

\* SELECT *, <e>, x AS y HAVING (<e>)
HavingQuery(e) ==
    MkQuery(None, SetSelect(MkSelect(<<>>,
                                     <<Wildcard, UnnamedExpr(e),
                                       ExprWithAlias(Identifier)>>,
                                     None, Some(Nested(e)))))

\* SELECT x, <e> AS y WHERE x
AliasQuery(e) ==
    MkQuery(None, SetSelect(MkSelect(<<>>,
                                     <<UnnamedExpr(Identifier),
                                       ExprWithAlias(e)>>,
                                     Some(Identifier), None)))

\* The parsed inputs of the runs checked.
Inputs ==
    \/ statements \in SeqsUpTo(SmallStatements, MaxStmts)
    \/ \E n1 \in NamePool, n2 \in NamePool :
          statements = <<StatementQuery(NameQuery(n1, n2))>>
    \/ \E t \in Twjs(MaxNest, <<116>>) :
          statements = <<StatementQuery(FromQuery(<<t>>))>>
    \/ \E t \in Twjs(1, <<117>>) :
          statements = <<StatementQuery(FromQuery(
                            <<TableWithJoins(Table(Plain(<<120>>)), <<>>), t>>))>>
    \/ \E b \in SetExprs(MaxSetOps, <<116>>) :
          statements = <<StatementQuery(MkQuery(None, b))>>
    \/ \E q \in CteQueries : statements = <<StatementQuery(q)>>
    \/ \E e \in QueryExprs(<<119>>) :
          statements = <<StatementQuery(WhereQuery(e))>>
    \/ \E e \in Exprs(MaxExprDepth - 1, <<119, 101>>) :
          \E x \in Around(e, <<119>>) :
              statements = <<StatementQuery(WhereQuery(x))>>
    \/ \E e \in Exprs(1, <<104>>) :
          statements = <<StatementQuery(HavingQuery(e))>>
    \/ \E e \in Exprs(1, <<115>>) :
          statements = <<StatementQuery(AliasQuery(e))>>
    \/ \E s \in SmallQueries :
          \E q \in CteQueries \cup {MkQuery(None, b) : b \in SetExprs(1, <<116>>)} :
              statements = <<CreateView(s), StatementQuery(q)>>

-----------------------------------------------------------------------------
(* main and extract_tables, one statement per step                         *)

Init ==
    /\ Inputs
    /\ idx = 0
    /\ tables = <<>>
    /\ pc = "extract"
    /\ printed = <<>>
    /\ stack = <<>>

\* main.rs:185-208, one iteration of for stmt in statements
ExtractStatement ==
    /\ pc = "extract"
    /\ idx < Len(statements)
    /\ tables' = Exec(StatementBody(statements[idx + 1]), tables)
    /\ idx' = idx + 1
    /\ UNCHANGED <<statements, pc, printed, stack>>

\* main.rs:209 and 276, extract_tables returns the set
ExtractReturn ==
    /\ pc \in {"extract", "walk"}
    /\ idx = Len(statements)
    /\ stack = <<>>
    /\ pc' = "print"
    /\ UNCHANGED <<statements, idx, tables, printed, stack>>

\* main.rs:277-279, one iteration of for t in tables { println!(t) }
Println ==
    /\ pc = "print"
    /\ Len(printed) < Len(tables)
    /\ printed' = Append(printed, tables[Len(printed) + 1])
    /\ UNCHANGED <<statements, idx, tables, pc, stack>>

\* main.rs:280, main returns
Exit ==
    /\ pc = "print"
    /\ Len(printed) = Len(tables)
    /\ pc' = "done"
    /\ UNCHANGED <<statements, idx, tables, printed, stack>>

Next == ExtractStatement \/ ExtractReturn \/ Println \/ Exit

Spec == Init /\ [][Next]_vars

-----------------------------------------------------------------------------
(* The same run, one call, one insert or one loop iteration per step       *)

\* The activation record of a call: what is left of its body, and for
\* collect_tables_from_query its queue and the number of nodes pushed.
Frame(fn, arg, todo, queue, enq) ==
    [fn |-> fn, arg |-> arg, todo |-> todo, queue |-> queue, enq |-> enq]

\* main.rs:41-42 for a query; the body of the callee otherwise
Enter(e) ==
    CASE e.op = "query" ->
            Frame("query", e.arg, CteCalls(e.arg), <<e.arg.body>>, 1)
      [] e.op = "select" -> Frame("select", e.arg, SelectBody(e.arg), <<>>, 0)
      [] e.op = "expr" -> Frame("expr", e.arg, ExprBody(e.arg), <<>>, 0)

Top == stack[Len(stack)]
Below == SubSeq(stack, 1, Len(stack) - 1)
Replace(f) == Append(Below, f)

InitWalk ==
    /\ Inputs
    /\ idx = 0
    /\ tables = <<>>
    /\ pc = "walk"
    /\ printed = <<>>
    /\ stack = <<>>

\* main.rs:185-186, the next statement is matched
WalkStatement ==
    /\ pc = "walk"
    /\ stack = <<>>
    /\ idx < Len(statements)
    /\ idx' = idx + 1
    /\ stack' = <<Frame("extract", statements[idx + 1],
                        StatementBody(statements[idx + 1]), <<>>, 0)>>
    /\ UNCHANGED <<statements, tables, pc, printed>>

\* out.insert(...)
WalkInsert ==
    /\ pc = "walk"
    /\ Len(stack) > 0
    /\ Len(Top.todo) > 0
    /\ Head(Top.todo).op = "insert"
    /\ tables' = BTreeInsert(tables, Head(Top.todo).arg)
    /\ stack' = Replace([Top EXCEPT !.todo = Tail(@)])
    /\ UNCHANGED <<statements, idx, pc, printed>>

\* a call of collect_tables_from_query or collect_tables_from_expr
WalkCall ==
    /\ pc = "walk"
    /\ Len(stack) > 0
    /\ Len(Top.todo) > 0
    /\ Head(Top.todo).op # "insert"
    /\ stack' = Append(Replace([Top EXCEPT !.todo = Tail(@)]),
                       Enter(Head(Top.todo)))
    /\ UNCHANGED <<statements, idx, tables, pc, printed>>

InLoop ==
    /\ pc = "walk"
    /\ Len(stack) > 0
    /\ Top.fn = "query"
    /\ Len(Top.todo) = 0
    /\ Len(Top.queue) > 0

\* main.rs:53-55
LoopSelect ==
    /\ InLoop
    /\ Head(Top.queue).kind = "Select"
    /\ stack' = Append(Replace([Top EXCEPT !.queue = Tail(@)]),
                       Enter(CallSelect(Head(Top.queue).select)))
    /\ UNCHANGED <<statements, idx, tables, pc, printed>>

\* main.rs:56-58
LoopQuery ==
    /\ InLoop
    /\ Head(Top.queue).kind = "Query"
    /\ stack' = Append(Replace([Top EXCEPT !.queue = Tail(@)]),
                       Enter(CallQuery(Head(Top.queue).query)))
    /\ UNCHANGED <<statements, idx, tables, pc, printed>>

\* A mutant of LoopSetOperation: the node popped is pushed back in place of
\* its right branch.
LoopSetOperation_requeue ==
    /\ InLoop
    /\ Head(Top.queue).kind = "SetOperation"
    /\ stack' = Replace([Top EXCEPT
                            !.queue = Tail(@) \o <<Head(Top.queue).left,
                                                   Head(Top.queue)>>,
                            !.enq = @ + 2])
    /\ UNCHANGED <<statements, idx, tables, pc, printed>>

\* main.rs:59-62
LoopSetOperation ==
    /\ InLoop
    /\ Head(Top.queue).kind = "SetOperation"
    /\ stack' = Replace([Top EXCEPT
                            !.queue = Tail(@) \o <<Head(Top.queue).left,
                                                   Head(Top.queue).right>>,
                            !.enq = @ + 2])
    /\ UNCHANGED <<statements, idx, tables, pc, printed>>

\* main.rs:63-64
LoopOther ==
    /\ InLoop
    /\ Head(Top.queue).kind \notin {"Select", "Query", "SetOperation"}
    /\ stack' = Replace([Top EXCEPT !.queue = Tail(@)])
    /\ UNCHANGED <<statements, idx, tables, pc, printed>>

\* the end of a body: the function returns to its caller
WalkReturn ==
    /\ pc = "walk"
    /\ Len(stack) > 0
    /\ Len(Top.todo) = 0
    /\ Len(Top.queue) = 0
    /\ stack' = Below
    /\ UNCHANGED <<statements, idx, tables, pc, printed>>

NextWalk ==
    \/ WalkStatement
    \/ WalkInsert
    \/ WalkCall
    \/ LoopSelect
    \/ LoopQuery
    \/ LoopSetOperation
    \/ LoopOther
    \/ WalkReturn
    \/ ExtractReturn
    \/ Println
    \/ Exit

\* The run is sequential and nothing in it waits: a step that can be taken
\* is taken.
SpecWalk == InitWalk /\ [][NextWalk]_vars /\ WF_vars(NextWalk)

\* The step-wise run ends with the set the functions compute: the two
\* specifications describe the same collector.
WalkAgrees ==
    pc \in {"print", "done"} =>
        tables = Exec(ForEach(StatementBody, statements), <<>>)

-----------------------------------------------------------------------------
(* The shape of the AST, for stating the properties                        *)

\* extract_tables has returned its set.
Returned == pc \in {"print", "done"}

\* The set a query traversal yields when started on an empty set.
QueryTables(q) == Range(collect_tables_from_query(q, <<>>))

\* A standalone query, a view definition, a table creation with a query.
Productive(stmt) ==
    \/ stmt.kind \in {"Query", "CreateView"}
    \/ stmt.kind = "CreateTable" /\ Len(stmt.query) = 1

QueryOf(stmt) == IF stmt.kind = "CreateTable" THEN stmt.query[1] ELSE stmt.query

\* The queries the statements of the run carry.
RunQueries ==
    {QueryOf(statements[i]) :
        i \in {j \in DOMAIN statements : Productive(statements[j])}}

\* The select blocks that are the whole body of a query of the run.
RunSelects == {q.body.select : q \in {r \in RunQueries : r.body.kind = "Select"}}

\* The operands of an expression, in every position the AST has.
Operands(e) ==
    CASE e.kind = "InSubquery" -> {e.expr}
      [] e.kind = "BinaryOp" -> {e.left, e.right}
      [] e.kind \in {"UnaryOp", "Cast", "Extract", "Nested", "IsNull"} ->
            {e.expr}
      [] e.kind = "Case" ->
            Range(e.operand) \cup Range(e.conditions) \cup Range(e.results)
                \cup Range(e.else_result)
      [] e.kind = "Function" -> Range(e.args)
      [] e.kind = "Between" -> {e.expr, e.low, e.high}
      [] e.kind = "Tuple" -> Range(e.exprs)
      [] OTHER -> {}

\* The proper sub-expressions of an expression (not those of its queries).
RECURSIVE SubExprs(_)
SubExprs(e) == UNION {{c} \cup SubExprs(c) : c \in Operands(e)}

\* The queries embedded in an expression, at any depth of operands.
EmbeddedQueries(e) ==
    {x.subquery : x \in {y \in {e} \cup SubExprs(e) :
                           y.kind \in {"Subquery", "Exists", "InSubquery"}}}

\* The expressions a select block holds outside its FROM list.
SelectExprs(s) ==
    {s.projection[i].expr :
        i \in {j \in DOMAIN s.projection :
                 s.projection[j].kind \in {"UnnamedExpr", "ExprWithAlias"}}}
        \cup Range(s.selection) \cup Range(s.having)

\* The table factors of a FROM entry: those in its primary and JOIN positions.
Positions(twj) ==
    {twj.relation} \cup {twj.joins[i].relation : i \in DOMAIN twj.joins}

\* The table factors at `level` levels of ( ... ) under a factor.
RECURSIVE FactorsAt(_, _)
FactorsAt(f, level) ==
    IF level = 0 THEN {f}
    ELSE IF f.kind # "NestedJoin" THEN {}
    ELSE UNION {FactorsAt(g, level - 1) : g \in Positions(f.table_with_joins)}

\* All table factors under a factor, itself included.
RECURSIVE FactorsUnder(_)
FactorsUnder(f) ==
    {f} \cup (IF f.kind # "NestedJoin" THEN {}
              ELSE UNION {FactorsUnder(g) : g \in Positions(f.table_with_joins)})

\* The names a set of table factors refers to: a named table by its rendered
\* path, a derived table by what the traversal of its query yields.
NamesOf(factors) ==
    {object_name_to_string(f.name) : f \in {g \in factors : g.kind = "Table"}}
        \cup UNION {QueryTables(f.subquery) :
                        f \in {g \in factors : g.kind = "Derived"}}

\* The nodes of the tree of set operations of a body.
RECURSIVE SetNodes(_)
SetNodes(b) ==
    {b} \cup (IF b.kind = "SetOperation"
              THEN SetNodes(b.left) \cup SetNodes(b.right) ELSE {})

\* Their number, counted with multiplicity.
RECURSIVE NodeCount(_)
NodeCount(b) ==
    IF b.kind = "SetOperation" THEN 1 + NodeCount(b.left) + NodeCount(b.right)
    ELSE 1

CteQueriesOf(q) ==
    IF Len(q.with) = 0 THEN {}
    ELSE {q.with[1].cte_tables[i].query : i \in DOMAIN q.with[1].cte_tables}

CteNamesOf(q) ==
    IF Len(q.with) = 0 THEN {}
    ELSE {q.with[1].cte_tables[i].alias : i \in DOMAIN q.with[1].cte_tables}

\* The select blocks at the leaves of the body of a query.
BodySelects(q) == {n.select : n \in {m \in SetNodes(q.body) : m.kind = "Select"}}

\* The queries nested as operands of the body of a query.
BodyQueries(q) == {n.query : n \in {m \in SetNodes(q.body) : m.kind = "Query"}}

\* The select blocks reached from a query through its CTE definitions and,
\* from its body, through set operations and nested queries.
RECURSIVE ReachableSelects(_)
ReachableSelects(q) ==
    BodySelects(q)
        \cup UNION {ReachableSelects(r) : r \in BodyQueries(q) \cup CteQueriesOf(q)}

\* The queries a select block holds: derived tables and embedded queries.
SelectQueries(s) ==
    {f.subquery :
        f \in {g \in UNION {FactorsUnder(h) :
                              h \in UNION {Positions(s.from[i]) : i \in DOMAIN s.from}}
                 : g.kind = "Derived"}}
        \cup UNION {EmbeddedQueries(e) : e \in SelectExprs(s)}

-----------------------------------------------------------------------------
(* Properties                                                              *)

\* C1: extract_tables returns the union of the query-traversal results of
\* exactly the statements that are a standalone query, a view definition or
\* a table creation carrying a query; every other statement contributes
\* nothing, and a run of only such statements returns the empty set.
C1_UnionOfProductiveStatements ==
    Returned =>
        /\ Range(tables) = UNION {QueryTables(q) : q \in RunQueries}
        /\ (RunQueries = {} => tables = <<>>)

\* C1 witness: a returned, non-empty set for a run that mixes a view
\* definition with a table creation that carries no query.
C1_Witness ==
    /\ Returned
    /\ tables # <<>>
    /\ \E i \in DOMAIN statements : statements[i].kind = "CreateView"
    /\ \E i \in DOMAIN statements :
          statements[i].kind = "CreateTable" /\ Len(statements[i].query) = 0

\* A named table is inserted, a derived table's query is traversed.
Resolved(f) ==
    CASE f.kind = "Table" -> object_name_to_string(f.name) \in Range(tables)
      [] f.kind = "Derived" -> QueryTables(f.subquery) \subseteq Range(tables)
      [] OTHER -> TRUE

\* ... and a parenthesized join group is unwrapped one level.
Covered(f) ==
    IF f.kind = "NestedJoin"
    THEN \A g \in Positions(f.table_with_joins) : Resolved(g)
    ELSE Resolved(f)

\* C2: collect_from_select covers the primary relation and every join of
\* every FROM entry; in either position a named table is inserted, a derived
\* table traversed and a parenthesized join group unwrapped one level, so
\* that b and c of a JOIN (b JOIN c) are in the result.
C2_CoversPrimaryAndEveryJoin ==
    Returned =>
        \A s \in RunSelects : \A i \in DOMAIN s.from :
            \A f \in Positions(s.from[i]) : Covered(f)

\* C3: collect_from_query visits every CTE definition's query and every
\* select block reached from the body through set operations and nested
\* queries of any depth and shape: the result holds every table named in
\* the FROM list of each such select block, and is made of the results of
\* these select blocks alone (literal row sets contribute nothing).
C3_EveryReachableSelectVisited ==
    Returned =>
        \A q \in RunQueries :
            /\ \A s \in ReachableSelects(q) : \A i \in DOMAIN s.from :
                  \A f \in Positions(s.from[i]) :
                      f.kind = "Table" =>
                          object_name_to_string(f.name) \in Range(tables)
            /\ QueryTables(q) =
                  UNION {Range(collect_tables_from_select(s, <<>>)) :
                            s \in ReachableSelects(q)}

\* C3 witness: a body whose set operations are two deep, one operand a
\* nested query and one a literal row set, with three tables collected.
C3_Witness ==
    /\ Returned
    /\ Len(tables) >= 3
    /\ \E q \in RunQueries :
          /\ q.body.kind = "SetOperation"
          /\ \E n \in SetNodes(q.body) \ {q.body} : n.kind = "SetOperation"
          /\ \E n \in SetNodes(q.body) : n.kind = "Query"
          /\ \E n \in SetNodes(q.body) : n.kind = "Values"

\* Built only from the variants collect_tables_from_expr dispatches on.
Dispatched(e) ==
    \A x \in {e} \cup SubExprs(e) :
        x.kind \in {"Identifier", "Subquery", "Exists", "InSubquery",
                    "BinaryOp", "UnaryOp", "Cast", "Extract", "Nested",
                    "Case", "Between", "Tuple"}

\* C4: for an expression built only from the dispatched variants, every
\* Query embedded anywhere in it, at any depth and in any operand position,
\* is handed to the query traversal: its tables are in the result.
C4_EveryEmbeddedQueryCollected ==
    Returned =>
        \A s \in RunSelects : \A e \in SelectExprs(s) :
            Dispatched(e) =>
                \A q \in EmbeddedQueries(e) : QueryTables(q) \subseteq Range(tables)

\* C5: the lines written are strictly increasing in lexicographic order,
\* hence sorted and without duplicates, and at the end they are the
\* collected set, each element once.
C5_OutputStrictlyIncreasing ==
    /\ \A i \in 1..(Len(printed) - 1) : LexLess(printed[i], printed[i + 1])
    /\ pc = "done" =>
          /\ Range(printed) = UNION {QueryTables(q) : q \in RunQueries}
          /\ Cardinality(Range(printed)) = Len(printed)

\* C5 witness: a self-join of one table has been written, as one line.
C5_Witness ==
    /\ pc = "done"
    /\ Len(printed) = 1
    /\ \E s \in RunSelects : \E i \in DOMAIN s.from :
          /\ Len(s.from[i].joins) = 1
          /\ s.from[i].relation.kind = "Table"
          /\ s.from[i].joins[1].relation = s.from[i].relation

\* C6: a query traversal started on a populated set S leaves S united with
\* what it yields on an empty set, removing nothing; a query traversed a
\* second time adds nothing to what it added the first time.
C6_AdditiveAndRepeatable ==
    [][(pc = "extract" /\ idx' = idx + 1 /\ Productive(statements[idx + 1])) =>
          /\ Range(tables') =
                Range(tables) \cup QueryTables(QueryOf(statements[idx + 1]))
          /\ collect_tables_from_query(QueryOf(statements[idx + 1]), tables')
                = tables']_vars

\* C6 witness: the second of two queries has been traversed on a set that
\* held a table the query does not name, and has added one of its own.
C6_Witness ==
    /\ pc = "extract"
    /\ idx = 2
    /\ Productive(statements[1]) /\ Productive(statements[2])
    /\ QueryTables(QueryOf(statements[1])) \ QueryTables(QueryOf(statements[2])) # {}
    /\ QueryTables(QueryOf(statements[2])) \ QueryTables(QueryOf(statements[1])) # {}
    /\ QueryTables(QueryOf(statements[2])) \cap QueryTables(QueryOf(statements[1])) # {}

\* WITH c AS (SELECT * FROM base) SELECT * FROM c, base being b
CteExample == MkQuery(Some(With(<<Cte(CteName, Sel(<<98>>))>>)), Sel(CteName).body)

\* C7: CTE names are not suppressed.  The result of a query with a WITH
\* clause holds the tables reached through each CTE definition and all that
\* its body yields without the WITH clause; a CTE name that a select block
\* of the body names in its FROM list is in the result, and
\* WITH c AS (SELECT * FROM base) SELECT * FROM c yields exactly {base, c}.
C7_CteNamesNotSuppressed ==
    Returned =>
        \A q \in RunQueries :
            /\ \A r \in CteQueriesOf(q) : QueryTables(r) \subseteq Range(tables)
            /\ QueryTables(MkQuery(None, q.body)) \subseteq Range(tables)
            /\ \A s \in ReachableSelects(MkQuery(None, q.body)) :
                  \A i \in DOMAIN s.from : \A f \in Positions(s.from[i]) :
                      (f.kind = "Table" /\ object_name_to_string(f.name) \in CteNamesOf(q))
                          => object_name_to_string(f.name) \in Range(tables)
            /\ (statements = <<StatementQuery(CteExample)>>
                   => Range(tables) = {<<98>>, CteName})

\* C7 witness: the example query has been traversed.
C7_Witness ==
    /\ Returned
    /\ statements = <<StatementQuery(CteExample)>>
    /\ tables = <<<<98>>, CteName>>

\* The segments of an identifier path, as written.
Segments(name) == [i \in DOMAIN name |-> name[i].value]

\* C8: a named table is rendered as its segments joined with '.', nothing
\* folded or dropped, and two identifier paths that differ in segment count,
\* segment order or letter case yield distinct entries in the result.
C8_DistinctPathsDistinctEntries ==
    Returned =>
        \A s \in RunSelects : \A i \in DOMAIN s.from :
            \A f \in Positions(s.from[i]), g \in Positions(s.from[i]) :
                (f.kind = "Table" /\ g.kind = "Table"
                    /\ Segments(f.name) # Segments(g.name))
                => /\ object_name_to_string(f.name) \in Range(tables)
                   /\ object_name_to_string(g.name) \in Range(tables)
                   /\ object_name_to_string(f.name) # object_name_to_string(g.name)

\* The names found only two or more levels of ( ... ) deep in a FROM entry.
DeepOnly(s, f) ==
    NamesOf(FactorsUnder(f) \ (FactorsAt(f, 0) \cup FactorsAt(f, 1)))
        \ (NamesOf(UNION {FactorsAt(g, n) :
                            g \in UNION {Positions(s.from[i]) : i \in DOMAIN s.from},
                            n \in 0..1})
             \cup UNION {QueryTables(q) :
                            q \in UNION {EmbeddedQueries(e) : e \in SelectExprs(s)}})

\* C9: only one level of ( ... ) is unwrapped: a table named only two or
\* more levels deep in the groups of a FROM entry is not in the result,
\* while the tables at the first level of the same group are.
C9_OneLevelUnwrapped ==
    (Returned /\ Len(statements) = 1) =>
        \A s \in RunSelects : \A i \in DOMAIN s.from :
            \A f \in Positions(s.from[i]) :
                f.kind = "NestedJoin" =>
                    /\ DeepOnly(s, f) \cap Range(tables) = {}
                    /\ (DeepOnly(s, f) # {} =>
                           NamesOf(FactorsAt(f, 1)) \subseteq Range(tables))

\* The argument of a call is a strict sub-tree of the argument of its caller.
Descends(caller, callee) ==
    CASE caller.fn = "extract" ->
            /\ callee.fn = "query"
            /\ Productive(caller.arg)
            /\ callee.arg = QueryOf(caller.arg)
      [] caller.fn = "query" ->
            \/ /\ callee.fn = "query"
               /\ callee.arg \in BodyQueries(caller.arg) \cup CteQueriesOf(caller.arg)
            \/ /\ callee.fn = "select"
               /\ callee.arg \in BodySelects(caller.arg)
      [] caller.fn = "select" ->
            \/ /\ callee.fn = "query"
               /\ callee.arg \in SelectQueries(caller.arg)
            \/ /\ callee.fn = "expr"
               /\ callee.arg \in SelectExprs(caller.arg)
      [] caller.fn = "expr" ->
            \/ /\ callee.fn = "expr"
               /\ callee.arg \in SubExprs(caller.arg)
            \/ /\ callee.fn = "query"
               /\ callee.arg \in EmbeddedQueries(caller.arg)

CallsDescend ==
    \A k \in 1..(Len(stack) - 1) : Descends(stack[k], stack[k + 1])

\* No worklist has ever held more nodes than the body of its query has.
WorklistBounded ==
    \A k \in DOMAIN stack :
        stack[k].fn = "query" =>
            /\ stack[k].enq <= NodeCount(stack[k].arg.body)
            /\ Len(stack[k].queue) <= stack[k].enq

\* C10: the run terminates on every finite AST: the worklist of every
\* query traversal empties, the nodes ever pushed on it never outnumber the
\* set-expression nodes of the body of its query, and every call is on a
\* strict sub-tree of the input of its caller.
C10_BoundedWorklistsAndTermination ==
    /\ [](WorklistBounded /\ CallsDescend)
    /\ <>(pc = "done" /\ stack = <<>>)

\* C10 witness: four calls deep, a worklist that has held all five or more
\* nodes of its body and still holds some.
C10_Witness ==
    /\ Len(stack) >= 4
    /\ \E k \in DOMAIN stack :
          /\ stack[k].fn = "query"
          /\ stack[k].enq >= 5
          /\ stack[k].enq = NodeCount(stack[k].arg.body)
          /\ Len(stack[k].queue) > 0

=============================================================================
